---- MODULE Spec2Model ----
(***************************************************************************)
(* Model of PhotoNameChecker.py: the filename parser, the name normalizer, *)
(* the roster index built by the scrapers, the matcher                     *)
(* (check_mismatches_and_missing / find_missing_players) and the "Check    *)
(* Files" handler of the main script.                                      *)
(*                                                                         *)
(* Python strings are TLA+ strings; TLC evaluates Len, SubSeq and \o on    *)
(* them.  A character is a string of length one.  The module is written    *)
(* in ASCII, so the non-ASCII characters the code names are written with   *)
(* the stand-in characters below, which are used for nothing else:         *)
(*    {  U+201C left double quote      }  U+201D right double quote        *)
(*    <  U+2018 left single quote      >  U+2019 right single quote        *)
(*    &  U+00E9 e with acute accent    ~  U+0301 combining acute accent    *)
(* The status strings of the code start with a pictograph (a cross, a      *)
(* check mark, a warning sign); the model writes it as a bracketed tag.    *)
(***************************************************************************)
EXTENDS Integers, Sequences, FiniteSets, TLC

(***************************************************************************)
(* Characters and character classes                                        *)
(***************************************************************************)
Ch(s, i) == SubSeq(s, i, i)

LowerLetters ==
    {"a", "b", "c", "d", "e", "f", "g", "h", "i", "j", "k", "l", "m",
     "n", "o", "p", "q", "r", "s", "t", "u", "v", "w", "x", "y", "z"}

Digits == {"0", "1", "2", "3", "4", "5", "6", "7", "8", "9"}

\* the lower-case form of each character that has one
ToLower ==
    [A |-> "a", B |-> "b", C |-> "c", D |-> "d", E |-> "e", F |-> "f",
     G |-> "g", H |-> "h", I |-> "i", J |-> "j", K |-> "k", L |-> "l",
     M |-> "m", N |-> "n", O |-> "o", P |-> "p", Q |-> "q", R |-> "r",
     S |-> "s", T |-> "t", U |-> "u", V |-> "v", W |-> "w", X |-> "x",
     Y |-> "y", Z |-> "z"]

UpperLetters == DOMAIN ToLower

\* str.lower() on one character
LowerChar(c) == IF c \in UpperLetters THEN ToLower[c] ELSE c

RECURSIVE LowerFrom(_, _)
LowerFrom(s, i) ==
    IF i > Len(s) THEN "" ELSE LowerChar(Ch(s, i)) \o LowerFrom(s, i + 1)

\* str.lower()
Lower(s) == LowerFrom(s, 1)

\* \w of a str pattern: alphanumeric characters and the underscore
WordChars == LowerLetters \cup UpperLetters \cup Digits \cup {"_", "&"}

IsWord(c) == c \in WordChars

\* \s
SpaceChars == {" ", "\t", "\n", "\r", "\f"}

IsSpace(c) == c \in SpaceChars

\* unicodedata.combining(c) != 0
IsCombining(c) == c = "~"

\* unicodedata.normalize("NFD", c) for one character
Decompose(c) == IF c = "&" THEN "e~" ELSE c

\* the character class of the first regex of normalize
NormalizeQuotes == {"\"", "{", "}", "<", ">", "'"}

\* the character class of the two nickname regexes (no straight single quote)
NicknameQuotes == {"\"", "{", "}", "<", ">"}

\* str.strip(): the first and last positions that are not whitespace
RECURSIVE LStripPos(_, _)
LStripPos(s, i) ==
    IF i > Len(s) THEN i
    ELSE IF IsSpace(Ch(s, i)) THEN LStripPos(s, i + 1) ELSE i

RECURSIVE RStripPos(_, _)
RStripPos(s, i) ==
    IF i < 1 THEN i
    ELSE IF IsSpace(Ch(s, i)) THEN RStripPos(s, i - 1) ELSE i

Strip(s) == SubSeq(s, LStripPos(s, 1), RStripPos(s, Len(s)))

\* s.endswith(t)
EndsWith(s, t) ==
    /\ Len(s) >= Len(t)
    /\ SubSeq(s, Len(s) - Len(t) + 1, Len(s)) = t

\* t in s (substring test)
HasSubstring(s, t) ==
    \E i \in 1..(Len(s) - Len(t) + 1) : SubSeq(s, i, i + Len(t) - 1) = t

(***************************************************************************)
(* normalize                                                               *)
(***************************************************************************)
\* the position of the first c after position i, or 0 when the rest of the
\* line (. does not match a newline) has none
RECURSIVE ClosingQuote(_, _, _)
ClosingQuote(s, c, j) ==
    IF j > Len(s) THEN 0
    ELSE IF Ch(s, j) = c THEN j
    ELSE IF Ch(s, j) = "\n" THEN 0
    ELSE ClosingQuote(s, c, j + 1)

\* re.sub(r'(["{}<>\']).*?\1', '', name)
RECURSIVE StripQuotedFrom(_, _)
StripQuotedFrom(s, i) ==
    IF i > Len(s) THEN ""
    ELSE LET c == Ch(s, i)
             j == IF c \in NormalizeQuotes THEN ClosingQuote(s, c, i + 1) ELSE 0
         IN  IF j > 0 THEN StripQuotedFrom(s, j + 1)
             ELSE c \o StripQuotedFrom(s, i + 1)

StripQuoted(s) == StripQuotedFrom(s, 1)

\* the alternatives of the suffix regex, in the order the regex tries them
SuffixTokens == <<"jr", "sr", "ii", "iii", "iv", "v">>

\* \b at the gap before position i
WordBoundary(s, i) ==
    LET before == i > 1 /\ IsWord(Ch(s, i - 1))
        after  == i <= Len(s) /\ IsWord(Ch(s, i))
    IN  before # after

\* the length of the match of \b(jr|sr|ii|iii|iv|v)\b at position i, or 0
SuffixMatchLen(s, i) ==
    LET fits(k) == /\ i + Len(SuffixTokens[k]) - 1 <= Len(s)
                   /\ SubSeq(s, i, i + Len(SuffixTokens[k]) - 1) = SuffixTokens[k]
                   /\ WordBoundary(s, i + Len(SuffixTokens[k]))
        hits == {k \in 1..Len(SuffixTokens) : fits(k)}
    IN  IF WordBoundary(s, i) /\ hits # {}
        THEN Len(SuffixTokens[CHOOSE k \in hits : \A m \in hits : k <= m])
        ELSE 0

\* re.sub(r"\b(jr|sr|ii|iii|iv|v)\b", "", name)
RECURSIVE RemoveSuffixesFrom(_, _)
RemoveSuffixesFrom(s, i) ==
    IF i > Len(s) THEN ""
    ELSE LET n == SuffixMatchLen(s, i)
         IN  IF n > 0 THEN RemoveSuffixesFrom(s, i + n)
             ELSE Ch(s, i) \o RemoveSuffixesFrom(s, i + 1)

RemoveSuffixes(s) == RemoveSuffixesFrom(s, 1)

\* unicodedata.normalize("NFD", name)
RECURSIVE DecomposeFrom(_, _)
DecomposeFrom(s, i) ==
    IF i > Len(s) THEN "" ELSE Decompose(Ch(s, i)) \o DecomposeFrom(s, i + 1)

\* "".join(c for c in name if not unicodedata.combining(c))
RECURSIVE DropCombiningFrom(_, _)
DropCombiningFrom(s, i) ==
    IF i > Len(s) THEN ""
    ELSE (IF IsCombining(Ch(s, i)) THEN "" ELSE Ch(s, i))
         \o DropCombiningFrom(s, i + 1)

FoldAccents(s) == DropCombiningFrom(DecomposeFrom(s, 1), 1)

\* re.sub(r"[^\w\s-]", "", name)
RECURSIVE StripNonWordFrom(_, _)
StripNonWordFrom(s, i) ==
    IF i > Len(s) THEN ""
    ELSE LET c == Ch(s, i)
         IN  (IF IsWord(c) \/ IsSpace(c) \/ c = "-" THEN c ELSE "")
             \o StripNonWordFrom(s, i + 1)

StripNonWord(s) == StripNonWordFrom(s, 1)

\* re.sub(r"\s+", " ", name)
RECURSIVE CollapseFrom(_, _)
CollapseFrom(s, i) ==
    IF i > Len(s) THEN ""
    ELSE IF IsSpace(Ch(s, i))
         THEN (IF i > 1 /\ IsSpace(Ch(s, i - 1)) THEN "" ELSE " ")
              \o CollapseFrom(s, i + 1)
         ELSE Ch(s, i) \o CollapseFrom(s, i + 1)

CollapseSpaces(s) == Strip(CollapseFrom(s, 1))

normalize(name) ==
    CollapseSpaces(StripNonWord(FoldAccents(RemoveSuffixes(StripQuoted(Lower(name))))))

(***************************************************************************)
(* Python values                                                           *)
(***************************************************************************)
\* None
None == "(None)"

\* A dict is the sequence of its items in insertion order.
DictKeys(d) == {d[i].key : i \in 1..Len(d)}

DictHas(d, k) == k \in DictKeys(d)

DictGet(d, k) == d[CHOOSE i \in 1..Len(d) : d[i].key = k].value

\* d[k] = v
DictSet(d, k, v) ==
    IF DictHas(d, k)
    THEN [i \in 1..Len(d) |-> IF d[i].key = k THEN [key |-> k, value |-> v] ELSE d[i]]
    ELSE Append(d, [key |-> k, value |-> v])

\* del d[k]
DictDel(d, k) == SelectSeq(d, LAMBDA item : item.key # k)

(***************************************************************************)
(* parse_filenames                                                         *)
(***************************************************************************)
\* os.path.basename(file)
RECURSIVE LastSlash(_, _)
LastSlash(s, i) ==
    IF i < 1 THEN 0 ELSE IF Ch(s, i) = "/" THEN i ELSE LastSlash(s, i - 1)

Basename(file) == SubSeq(file, LastSlash(file, Len(file)) + 1, Len(file))

\* base.count("_")
CountChar(s, c) == Cardinality({i \in 1..Len(s) : Ch(s, i) = c})

\* base.split("_")
RECURSIVE SplitFrom(_, _, _, _)
SplitFrom(s, c, start, i) ==
    IF i > Len(s) THEN <<SubSeq(s, start, Len(s))>>
    ELSE IF Ch(s, i) = c
         THEN <<SubSeq(s, start, i - 1)>> \o SplitFrom(s, c, i + 1, i + 1)
         ELSE SplitFrom(s, c, start, i + 1)

Split(s, c) == SplitFrom(s, c, 1, 1)

MsgUnderscores == "Must have exactly two underscores: team_last_first.png"

MsgMissingPart == "Missing last or first name"

\* IsPng with the lower() left out: the extension is compared as written
IsPng_CaseSensitive(name) == EndsWith(name, ".png")

\* name.lower().endswith(".png")
IsPng(name) == EndsWith(Lower(name), ".png")

InvalidCandidate(name, msg) ==
    [filename |-> name, school |-> None, last |-> None, first |-> None,
     format_valid |-> FALSE, format_msg |-> msg]

\* the second test of the loop body: a part is missing
PartsInvalid(parts) ==
    Len(parts) # 3 \/ Strip(parts[2]) = "" \/ Strip(parts[3]) = ""

\* the loop body of parse_filenames for a name that ends in .png
ParseName(name) ==
    LET base  == SubSeq(name, 1, Len(name) - 4)
        parts == Split(base, "_")
    IN  IF CountChar(base, "_") # 2
        THEN InvalidCandidate(name, MsgUnderscores)
        ELSE IF PartsInvalid(parts)
        THEN InvalidCandidate(name, MsgMissingPart)
        ELSE [filename |-> name,
              school |-> Strip(Lower(parts[1])),
              last |-> Strip(Lower(parts[2])),
              first |-> Strip(Lower(parts[3])),
              format_valid |-> TRUE, format_msg |-> None]

RECURSIVE ParseFrom(_, _)
ParseFrom(files, i) ==
    IF i > Len(files) THEN <<>>
    ELSE LET name == Basename(files[i])
         IN  (IF IsPng(name) THEN <<ParseName(name)>> ELSE <<>>)
             \o ParseFrom(files, i + 1)

parse_filenames(folder_or_files) == ParseFrom(folder_or_files, 1)

(***************************************************************************)
(* scrape_player_names / scrape_baylor_players / scrape_staff_names:       *)
(* the part that turns the scraped texts into the lookup tables            *)
(***************************************************************************)
\* re.search(r'(coach|staff|bio|view|jersey|number)', name, re.I)
ScrapeStopWords == {"coach", "staff", "bio", "view", "jersey", "number"}

\* the test that admits an element's text to found_names
IsFoundName(name) ==
    /\ name # ""
    /\ ~ \E w \in ScrapeStopWords : HasSubstring(Lower(name), w)

\* the end of the run of characters of one kind (space or not) that starts at i
RECURSIVE RunEnd(_, _, _)
RunEnd(s, i, space) ==
    IF i + 1 <= Len(s) /\ IsSpace(Ch(s, i + 1)) = space
    THEN RunEnd(s, i + 1, space) ELSE i

\* the end of the line that holds position i (. does not match a newline)
RECURSIVE LineEnd(_, _)
LineEnd(s, i) ==
    IF i + 1 <= Len(s) /\ Ch(s, i + 1) # "\n" THEN LineEnd(s, i + 1) ELSE i

\* (\S+)\s+["{}<>] matched at position p: the position of the quote, or 0
QuoteAfterToken(s, p) ==
    IF p > Len(s) \/ IsSpace(Ch(s, p)) THEN 0
    ELSE LET a == RunEnd(s, p, FALSE)
         IN  IF a + 1 > Len(s) THEN 0
             ELSE LET b == RunEnd(s, a + 1, TRUE)
                  IN  IF b + 1 <= Len(s) /\ Ch(s, b + 1) \in NicknameQuotes
                      THEN b + 1 ELSE 0

\* \s+(.+) matched at position i: the position where the last group starts,
\* or 0; the whitespace takes all it can and gives back what the group needs
RECURSIVE GiveBack(_, _, _)
GiveBack(s, w, lo) ==
    IF w < lo \/ w + 1 > Len(s) THEN 0
    ELSE IF Ch(s, w + 1) # "\n" THEN w + 1
    ELSE GiveBack(s, w - 1, lo)

LastGroupStart(s, i) ==
    IF i > Len(s) \/ ~ IsSpace(Ch(s, i)) THEN 0
    ELSE LET b == RunEnd(s, i, TRUE)
         IN  GiveBack(s, IF b = Len(s) THEN b - 1 ELSE b, i)

\* the end of the lazy group (.+?) that opens after the quote at q, tried
\* from e on: the closing quote is at e + 1 and the rest matches; or 0
RECURSIVE NicknameEnd(_, _)
NicknameEnd(s, e) ==
    IF e + 1 > Len(s) \/ Ch(s, e) = "\n" THEN 0
    ELSE IF Ch(s, e + 1) \in NicknameQuotes /\ LastGroupStart(s, e + 2) > 0 THEN e
    ELSE NicknameEnd(s, e + 1)

\* re.search(r'(\S+)\s+["{}<>](.+?)["{}<>]\s+(.+)', name) tried from
\* position p on: the start of the leftmost match, or 0
RECURSIVE NicknameStart(_, _)
NicknameStart(s, p) ==
    IF p > Len(s) THEN 0
    ELSE LET q == QuoteAfterToken(s, p)
         IN  IF q > 0 /\ NicknameEnd(s, q + 1) > 0 THEN p
             ELSE NicknameStart(s, p + 1)

\* match.groups() of that search, given the start p > 0 of the match
NicknameGroups(s, p) ==
    LET q == QuoteAfterToken(s, p)
        e == NicknameEnd(s, q + 1)
        g == LastGroupStart(s, e + 2)
    IN  [first_name |-> SubSeq(s, p, RunEnd(s, p, FALSE)),
         nickname   |-> SubSeq(s, q + 1, e),
         last_name  |-> SubSeq(s, g, LineEnd(s, g))]

\* the loop over found_names that fills primary_names and nickname_names;
\* names is found_names in the order the set iteration yields it
RECURSIVE IndexPlayers(_, _, _)
IndexPlayers(names, primary_names, nickname_names) ==
    IF names = <<>>
    THEN [primary |-> primary_names, nickname |-> nickname_names]
    ELSE LET name == Head(names)
             p == NicknameStart(name, 1)
         IN  IF p > 0
             THEN LET g == NicknameGroups(name, p)
                  IN  IndexPlayers(Tail(names),
                        DictSet(primary_names,
                                normalize(g.first_name \o " " \o g.last_name), name),
                        DictSet(nickname_names,
                                normalize(g.nickname \o " " \o g.last_name), name))
             ELSE IndexPlayers(Tail(names),
                               DictSet(primary_names, normalize(name), name),
                               nickname_names)

\* scrape_baylor_players: every non-empty link text is a primary name
RECURSIVE IndexBaylor(_, _)
IndexBaylor(texts, primary_names) ==
    IF texts = <<>> THEN [primary |-> primary_names, nickname |-> <<>>]
    ELSE IndexBaylor(Tail(texts),
                     IF Head(texts) # ""
                     THEN DictSet(primary_names, normalize(Head(texts)), Head(texts))
                     ELSE primary_names)

\* scrape_player_names on a page whose selected elements have the texts given
scrape_player_names(is_baylor, texts) ==
    IF is_baylor THEN IndexBaylor(texts, <<>>)
    ELSE IndexPlayers(SelectSeq(texts, IsFoundName), <<>>, <<>>)

\* scrape_staff_names on a page whose staff items have the names and titles given
RECURSIVE IndexStaff(_, _)
IndexStaff(items, staff_dict) ==
    IF items = <<>> THEN staff_dict
    ELSE IndexStaff(Tail(items),
                    DictSet(staff_dict, normalize(Head(items).name),
                            [name |-> Head(items).name, title |-> Head(items).title]))

scrape_staff_names(items) == IndexStaff(items, <<>>)

(***************************************************************************)
(* find_missing_players                                                    *)
(***************************************************************************)
StatusMissing == "[!] Missing"

\* normalize(f"{entry.get('first','')} {entry.get('last','')}")
EntryKey(entry) == normalize(entry.first \o " " \o entry.last)

\* the first loop: the keys of the valid files that are not staff files
existing_player_files(parsed_files, staff_dict) ==
    LET valid == {j \in 1..Len(parsed_files) : parsed_files[j].format_valid}
        names == {EntryKey(parsed_files[j]) : j \in valid}
    IN  {normalized_name \in names : ~ DictHas(staff_dict, normalized_name)}

\* roster_name.split(" ", 1)
RECURSIVE FirstSpace(_, _)
FirstSpace(s, i) ==
    IF i > Len(s) THEN 0 ELSE IF Ch(s, i) = " " THEN i ELSE FirstSpace(s, i + 1)

SplitOnce(s) ==
    LET k == FirstSpace(s, 1)
    IN  IF k = 0 THEN <<s>>
        ELSE <<SubSeq(s, 1, k - 1), SubSeq(s, k + 1, Len(s))>>

\* MissingRow with the name split at every space, the second part taken as last
MissingRow_SplitEverySpace(roster_name, school_prefix) ==
    LET parts == Split(roster_name, " ")
        first == parts[1]
        last  == IF Len(parts) >= 2 THEN parts[2] ELSE ""
    IN  [filename   |-> None,
         first      |-> Lower(first),
         last       |-> IF last # "" THEN Lower(last) ELSE "",
         status     |-> StatusMissing,
         suggestion |-> IF last # ""
                        THEN school_prefix \o "_" \o Lower(last) \o "_"
                             \o Lower(first) \o ".png"
                        ELSE school_prefix \o "_" \o Lower(first) \o ".png",
         name       |-> roster_name]

\* the row appended for a roster name that has no file
MissingRow(roster_name, school_prefix) ==
    LET parts == SplitOnce(roster_name)
        first == parts[1]
        last  == IF Len(parts) = 2 THEN parts[2] ELSE ""
    IN  [filename   |-> None,
         first      |-> Lower(first),
         last       |-> IF last # "" THEN Lower(last) ELSE "",
         status     |-> StatusMissing,
         suggestion |-> IF last # ""
                        THEN school_prefix \o "_" \o Lower(last) \o "_"
                             \o Lower(first) \o ".png"
                        ELSE school_prefix \o "_" \o Lower(first) \o ".png",
         name       |-> roster_name]

\* SkipsRosterEntry with the staff test left out
SkipsRosterEntry_NoStaffTest(item, staff_dict) ==
    Lower(item.value) \in {"full bio", "view full bio"}

\* the tests of the second loop that skip a roster entry
SkipsRosterEntry(item, staff_dict) ==
    \/ DictHas(staff_dict, item.key)
    \/ Lower(item.value) \in {"full bio", "view full bio"}

\* find_missing_players with the test against existing_player_files left out
find_missing_players_IgnoringFiles(parsed_files, player_keys, staff_dict, school_prefix) ==
    LET absent(item) == ~ SkipsRosterEntry(item, staff_dict)
        missing == SelectSeq(player_keys, absent)
    IN  [i \in 1..Len(missing) |-> MissingRow(missing[i].value, school_prefix)]

find_missing_players(parsed_files, player_keys, staff_dict, school_prefix) ==
    LET existing == existing_player_files(parsed_files, staff_dict)
        absent(item) == /\ ~ SkipsRosterEntry(item, staff_dict)
                        /\ item.key \notin existing
        missing == SelectSeq(player_keys, absent)
    IN  [i \in 1..Len(missing) |-> MissingRow(missing[i].value, school_prefix)]

(***************************************************************************)
(* check_mismatches_and_missing                                            *)
(***************************************************************************)
StatusMatched == "[ok]"

StatusSchool == "[x] School prefix mismatch"

StatusNickname == "[x] Nickname used instead of First Name"

StatusNotInRoster == "[x] Name not in roster"

StatusStaff(title) == "[x] Not a Player (" \o title \o ")"

\* parsed_files = [f for f in parsed_files if f.get("format_valid", False)]
ValidOnly(parsed_files) == SelectSeq(parsed_files, LAMBDA f : f.format_valid)

\* re.search(r'(\S+)\s+["{}<>]', name) tried from position p on: the start
\* of the leftmost match, or 0
RECURSIVE TokenQuoteStart(_, _)
TokenQuoteStart(s, p) ==
    IF p > Len(s) THEN 0
    ELSE IF QuoteAfterToken(s, p) > 0 THEN p
    ELSE TokenQuoteStart(s, p + 1)

\* the local variable suggestion of the nickname branch
NicknameSuggestion(entry, nickname_keys, school_prefix) ==
    LET original_roster_name == DictGet(nickname_keys, EntryKey(entry))
        p == TokenQuoteStart(original_roster_name, 1)
    IN  IF p > 0
        THEN LET first_name == normalize(SubSeq(original_roster_name, p,
                                                RunEnd(original_roster_name, p, FALSE)))
             IN  school_prefix \o "_" \o entry.last \o "_" \o first_name \o ".png"
        ELSE None

\* the values of status and roster_name that a branch of the chain sets
Outcome(status, roster_name) == [status |-> status, name |-> roster_name]

\* ValidOutcome with the primary test ahead of the school test
ValidOutcome_PrimaryBeforeSchool(entry, player_keys, nickname_keys, staff_dict, school_prefix) ==
    LET normalized_filename_name == EntryKey(entry)
    IN  IF DictHas(staff_dict, normalized_filename_name)
        THEN Outcome(StatusStaff(DictGet(staff_dict, normalized_filename_name).title),
                     None)
        ELSE IF DictHas(player_keys, normalized_filename_name)
        THEN Outcome(StatusMatched, DictGet(player_keys, normalized_filename_name))
        ELSE IF entry.school # Lower(school_prefix)
        THEN Outcome(StatusSchool, None)
        ELSE IF DictHas(nickname_keys, normalized_filename_name)
        THEN Outcome(StatusNickname, DictGet(nickname_keys, normalized_filename_name))
        ELSE Outcome(StatusNotInRoster, None)

\* ValidOutcome whose last branch reports a match
ValidOutcome_ElseMatched(entry, player_keys, nickname_keys, staff_dict, school_prefix) ==
    LET normalized_filename_name == EntryKey(entry)
    IN  IF DictHas(staff_dict, normalized_filename_name)
        THEN Outcome(StatusStaff(DictGet(staff_dict, normalized_filename_name).title),
                     None)
        ELSE IF entry.school # Lower(school_prefix)
        THEN Outcome(StatusSchool, None)
        ELSE IF DictHas(player_keys, normalized_filename_name)
        THEN Outcome(StatusMatched, DictGet(player_keys, normalized_filename_name))
        ELSE IF DictHas(nickname_keys, normalized_filename_name)
        THEN Outcome(StatusNickname, DictGet(nickname_keys, normalized_filename_name))
        ELSE Outcome(StatusMatched, None)

\* the if / elif chain of a valid entry: staff first, then the school, then
\* the primary table, then the nickname table
ValidOutcome(entry, player_keys, nickname_keys, staff_dict, school_prefix) ==
    LET normalized_filename_name == EntryKey(entry)
    IN  IF DictHas(staff_dict, normalized_filename_name)
        THEN Outcome(StatusStaff(DictGet(staff_dict, normalized_filename_name).title),
                     None)
        ELSE IF entry.school # Lower(school_prefix)
        THEN Outcome(StatusSchool, None)
        ELSE IF DictHas(player_keys, normalized_filename_name)
        THEN Outcome(StatusMatched, DictGet(player_keys, normalized_filename_name))
        ELSE IF DictHas(nickname_keys, normalized_filename_name)
        THEN Outcome(StatusNickname, DictGet(nickname_keys, normalized_filename_name))
        ELSE Outcome(StatusNotInRoster, None)

\* the loop body: the row appended to data for one entry; the dict has no
\* "suggestion" item
FileRow(entry, player_keys, nickname_keys, staff_dict, school_prefix) ==
    LET raw_last  == IF entry.last = None THEN "" ELSE entry.last
        raw_first == IF entry.first = None THEN "" ELSE entry.first
        outcome == IF ~ entry.format_valid
                   THEN Outcome(entry.format_msg, None)
                   ELSE ValidOutcome(entry, player_keys, nickname_keys,
                                     staff_dict, school_prefix)
    IN  [filename |-> entry.filename,
         first    |-> raw_first,
         last     |-> raw_last,
         status   |-> outcome.status,
         name     |-> outcome.name]

check_mismatches_and_missing(all_files, player_keys, nickname_keys, staff_dict, school_prefix) ==
    LET parsed_files == ValidOnly(all_files)
        data == [i \in 1..Len(parsed_files) |->
                    FileRow(parsed_files[i], player_keys, nickname_keys,
                            staff_dict, school_prefix)]
    IN  data \o find_missing_players(parsed_files, player_keys, staff_dict,
                                     school_prefix)

(***************************************************************************)
(* The main script: the "Check Files" handler                              *)
(***************************************************************************)
\* "baylorbears.com" in url.lower()
IsBaylor(url) == HasSubstring(Lower(url), "baylorbears.com")

\* the loop that removes the staff keys from both player tables
RECURSIVE RemoveStaff(_, _)
RemoveStaff(tables, staff_names) ==
    IF staff_names = <<>> THEN tables
    ELSE RemoveStaff([primary  |-> DictDel(tables.primary, Head(staff_names).key),
                      nickname |-> DictDel(tables.nickname, Head(staff_names).key)],
                     Tail(staff_names))

\* invalid_keywords of the main script
Denylist == {"coach", "staff", "jersey", "number", "manager", "director",
             "head coach", "assistant", "trainer", "operations"}

\* any(word in lower_name for word in invalid_keywords)
IsDenylisted(display_name) ==
    \E word \in Denylist : HasSubstring(Lower(display_name), word)

\* the loop over list(player_keys.keys()) that removes the denylisted entries
RECURSIVE RemoveDenylisted(_, _)
RemoveDenylisted(tables, items) ==
    IF items = <<>> THEN tables
    ELSE LET key == Head(items).key
         IN  IF IsDenylisted(DictGet(tables.primary, key))
             THEN RemoveDenylisted([primary  |-> DictDel(tables.primary, key),
                                    nickname |-> DictDel(tables.nickname, key)],
                                   Tail(items))
             ELSE RemoveDenylisted(tables, Tail(items))

\* the tables of the handler after the two pruning loops
PrunedTables(tables, staff) ==
    LET no_staff == RemoveStaff(tables, staff)
    IN  RemoveDenylisted(no_staff, no_staff.primary)

(***************************************************************************)
(* Bounds and input pools                                                  *)
(***************************************************************************)
MaxFiles == 2

MaxPlayers == 2

MaxStaff == 1

MaxNameLen == 3

MaxBaseLen == 5
MaxListed == 1

\* the filenames a listing can hold
FilePool == {"img/CAL_SMITH_JOHN.PNG", "cal_smith_jonathan.png", "weird-name.png",
             "notes.txt"}

\* the texts the player selectors can yield
PlayerPool == {"John \"Jonathan\" Smith", "Jonathan Smith", "Jane Doe", "Full Bio"}

\* the same, on a page that also lists a person by their role
MainPlayerPool == PlayerPool \cup {"Bo {Trainer} Lee"}

\* the names and titles the staff selectors can yield
StaffPool == {[name |-> "John Smith", title |-> "Head Coach"]}

PrefixPool == {"Cal", "stanford"}

\* the texts of a roster of one, two and three words, one of them a coach
RosterPool == {"Jane Doe", "Cher", "Mary Ann Lee", "John Smith"}

\* what can be typed into the school prefix input; the text is used as typed
TypedPrefixPool == {"cal", "Cal", "cal "}

UrlPool == {"https://goheels.com/roster", "https://baylorbears.com/roster"}

\* the characters of the names given to normalize
NameAlphabet == {"j", "r", "v", ".", " ", "\"", "{", "}", "&"}

\* the characters of the base names given to parse_filenames
BaseAlphabet == {"a", "_"}

ExtensionPool == {".png", ".PNG", ".txt"}

\* the sequences without repetition of at most n elements of S
InjSeqs(S, n) ==
    UNION {{q \in [1..k -> S] : \A a, b \in 1..k : a # b => q[a] # q[b]} : k \in 0..n}

\* the sequences of at most n elements of S
SeqsUpTo(S, n) == UNION {[1..k -> S] : k \in 0..n}

\* the strings of at most n characters of A
RECURSIVE Strings(_, _)
Strings(A, n) ==
    IF n = 0 THEN {""}
    ELSE LET shorter == Strings(A, n - 1)
         IN  shorter \cup {t \o c : t \in shorter, c \in A}

(***************************************************************************)
(* State                                                                   *)
(***************************************************************************)
VARIABLES
    image_files,    \* the listing given to parse_filenames
    school_prefix,  \* the text of the school prefix input
    school_url,     \* the text of the roster URL input
    player_texts,   \* what the player selectors yield on the page at school_url
    staff_items,    \* what the staff selectors yield on that page
    parsed_files,   \* the result of parse_filenames
    player_keys,    \* primary player table
    nickname_keys,  \* nickname player table
    staff_dict,     \* staff table
    df,             \* the rows of the report
    pc,             \* how far the calls have come
    name,           \* the argument of normalize
    key,            \* normalize(name)
    key_again,      \* normalize(key)
    suggested       \* the missing row whose suggested filename was added

vars == <<image_files, school_prefix, school_url, player_texts, staff_items,
          parsed_files, player_keys, nickname_keys, staff_dict, df, pc,
          name, key, key_again, suggested>>

inputs == <<image_files, school_prefix, school_url, player_texts, staff_items>>

normalizer == <<name, key, key_again>>

NoResults ==
    /\ parsed_files = <<>>
    /\ player_keys = <<>>
    /\ nickname_keys = <<>>
    /\ staff_dict = <<>>
    /\ df = <<>>
    /\ suggested = None

NoName == name = "" /\ key = None /\ key_again = None

(***************************************************************************)
(* The functions called one after the other, each on inputs of its own     *)
(***************************************************************************)
NoInputs ==
    /\ image_files = <<>>
    /\ school_prefix = ""
    /\ school_url = ""
    /\ player_texts = <<>>
    /\ staff_items = <<>>

Init ==
    /\ NoInputs
    /\ NoResults
    /\ NoName
    /\ pc = "start"

ParseFilenames ==
    /\ pc = "start"
    /\ \E files \in SeqsUpTo(FilePool, MaxFiles) :
          /\ image_files' = files
          /\ parsed_files' = parse_filenames(files)
    /\ pc' = "parsed"
    /\ UNCHANGED <<school_prefix, school_url, player_texts, staff_items,
                   player_keys, nickname_keys, staff_dict, df, normalizer, suggested>>

ScrapePlayerNames ==
    /\ pc = "parsed"
    /\ \E url \in UrlPool, texts \in InjSeqs(PlayerPool, MaxPlayers) :
          LET tables == scrape_player_names(IsBaylor(url), texts)
          IN  /\ school_url' = url
              /\ player_texts' = texts
              /\ player_keys' = tables.primary
              /\ nickname_keys' = tables.nickname
    /\ pc' = "players"
    /\ UNCHANGED <<image_files, school_prefix, staff_items, parsed_files,
                   staff_dict, df, normalizer, suggested>>

ScrapeStaffNames ==
    /\ pc = "players"
    /\ \E items \in InjSeqs(StaffPool, MaxStaff) :
          /\ staff_items' = items
          /\ staff_dict' = scrape_staff_names(items)
    /\ pc' = "staff"
    /\ UNCHANGED <<image_files, school_prefix, school_url, player_texts,
                   parsed_files, player_keys, nickname_keys, df, normalizer, suggested>>

CheckMismatchesAndMissing ==
    /\ pc = "staff"
    /\ \E prefix \in PrefixPool :
          /\ school_prefix' = prefix
          /\ df' = check_mismatches_and_missing(parsed_files, player_keys,
                                                nickname_keys, staff_dict, prefix)
    /\ pc' = "done"
    /\ UNCHANGED <<image_files, school_url, player_texts, staff_items,
                   parsed_files, player_keys, nickname_keys, staff_dict, normalizer, suggested>>

Next ==
    \/ ParseFilenames
    \/ ScrapePlayerNames
    \/ ScrapeStaffNames
    \/ CheckMismatchesAndMissing

Spec == Init /\ [][Next]_vars

(***************************************************************************)
(* The report of a folder and a roster, then the report of the same folder *)
(* with one suggested filename of a missing row added to it                *)
(***************************************************************************)
\* parse_filenames, the two scrapers and check_mismatches_and_missing
ReportMissing ==
    /\ pc = "start"
    /\ \E files \in SeqsUpTo(FilePool, MaxListed), url \in UrlPool,
          texts \in InjSeqs(RosterPool, MaxPlayers),
          items \in InjSeqs(StaffPool, MaxStaff), prefix \in TypedPrefixPool :
          LET tables == scrape_player_names(IsBaylor(url), texts)
          IN  /\ image_files' = files
              /\ school_url' = url
              /\ player_texts' = texts
              /\ staff_items' = items
              /\ school_prefix' = prefix
              /\ parsed_files' = parse_filenames(files)
              /\ player_keys' = tables.primary
              /\ nickname_keys' = tables.nickname
              /\ staff_dict' = scrape_staff_names(items)
              /\ df' = check_mismatches_and_missing(parsed_files', player_keys',
                                                    nickname_keys', staff_dict', prefix)
    /\ pc' = "reported"
    /\ UNCHANGED <<normalizer, suggested>>

\* a file with the suggested name of one missing row joins the folder, and
\* parse_filenames and check_mismatches_and_missing run again on the same tables
AddSuggestedFile ==
    /\ pc = "reported"
    /\ \E j \in {i \in 1..Len(df) : df[i].filename = None} :
          /\ suggested' = df[j]
          /\ image_files' = Append(image_files, df[j].suggestion)
    /\ parsed_files' = parse_filenames(image_files')
    /\ df' = check_mismatches_and_missing(parsed_files', player_keys,
                                          nickname_keys, staff_dict, school_prefix)
    /\ pc' = "retried"
    /\ UNCHANGED <<school_prefix, school_url, player_texts, staff_items,
                   player_keys, nickname_keys, staff_dict, normalizer>>

NextSuggestion == ReportMissing \/ AddSuggestedFile

SpecSuggestion == Init /\ [][NextSuggestion]_vars

(***************************************************************************)
(* parse_filenames on one generated filename                               *)
(***************************************************************************)
ParseGenerated ==
    /\ pc = "start"
    /\ \E base \in Strings(BaseAlphabet, MaxBaseLen), ext \in ExtensionPool :
          /\ image_files' = <<base \o ext>>
          /\ parsed_files' = parse_filenames(<<base \o ext>>)
    /\ pc' = "parsed"
    /\ UNCHANGED <<school_prefix, school_url, player_texts, staff_items,
                   player_keys, nickname_keys, staff_dict, df, normalizer, suggested>>

NextParse == ParseGenerated

SpecParse == Init /\ [][NextParse]_vars

(***************************************************************************)
(* normalize on a generated name, and again on its result                  *)
(***************************************************************************)
NormalizeName ==
    /\ key = None
    /\ \E text \in Strings(NameAlphabet, MaxNameLen) :
          /\ name' = text
          /\ key' = normalize(text)
    /\ UNCHANGED <<inputs, parsed_files, player_keys, nickname_keys, staff_dict,
                   df, pc, key_again, suggested>>

NormalizeKey ==
    /\ key # None
    /\ key_again = None
    /\ key_again' = normalize(key)
    /\ UNCHANGED <<inputs, parsed_files, player_keys, nickname_keys, staff_dict,
                   df, pc, name, key, suggested>>

NextNormalize == NormalizeName \/ NormalizeKey

SpecNormalize == Init /\ [][NextNormalize]_vars

(***************************************************************************)
(* The main script: the inputs are entered, then "Check Files" is pressed  *)
(***************************************************************************)
InitMain ==
    /\ NoInputs
    /\ NoResults
    /\ NoName
    /\ pc = "idle"

\* image_files = [f for f in os.listdir(folder_path) if f.lower().endswith(".png")]
ListImages ==
    /\ pc = "idle"
    /\ \E listing \in SeqsUpTo(FilePool, MaxFiles) :
          image_files' = SelectSeq(listing, LAMBDA f : EndsWith(Lower(f), ".png"))
    /\ UNCHANGED <<school_prefix, school_url, player_texts, staff_items,
                   parsed_files, player_keys, nickname_keys, staff_dict, df, pc,
                   normalizer, suggested>>

EnterSchoolPrefix ==
    /\ pc = "idle"
    /\ school_prefix' \in PrefixPool
    /\ UNCHANGED <<image_files, school_url, player_texts, staff_items,
                   parsed_files, player_keys, nickname_keys, staff_dict, df, pc,
                   normalizer, suggested>>

EnterSchoolUrl ==
    /\ pc = "idle"
    /\ school_url' \in UrlPool
    /\ UNCHANGED <<image_files, school_prefix, player_texts, staff_items,
                   parsed_files, player_keys, nickname_keys, staff_dict, df, pc,
                   normalizer, suggested>>

\* the body of "if st.button("Check Files"):"; texts and items are what the
\* selectors of the two scrapers yield on the page at school_url
CheckFiles ==
    /\ pc = "idle"
    /\ IF image_files = <<>> \/ school_prefix = "" \/ school_url = ""
       THEN /\ pc' = "error"
            /\ UNCHANGED <<player_texts, staff_items, parsed_files, player_keys,
                           nickname_keys, staff_dict, df>>
       ELSE \E texts \in InjSeqs(MainPlayerPool, MaxPlayers),
               items \in InjSeqs(StaffPool, MaxStaff) :
            LET scraped == scrape_player_names(IsBaylor(school_url), texts)
                staff   == scrape_staff_names(items)
                tables  == PrunedTables(scraped, staff)
            IN  /\ player_texts' = texts
                /\ staff_items' = items
                /\ parsed_files' = parse_filenames(image_files)
                /\ player_keys' = tables.primary
                /\ nickname_keys' = tables.nickname
                /\ staff_dict' = staff
                /\ IF player_keys' = <<>>
                   THEN /\ pc' = "warned"
                        /\ df' = df
                   ELSE /\ pc' = "shown"
                        /\ df' = check_mismatches_and_missing(
                                     parsed_files', player_keys', nickname_keys',
                                     staff_dict', school_prefix)
    /\ UNCHANGED <<image_files, school_prefix, school_url, normalizer, suggested>>

NextMain ==
    \/ ListImages
    \/ EnterSchoolPrefix
    \/ EnterSchoolUrl
    \/ CheckFiles

SpecMain == InitMain /\ [][NextMain]_vars

(***************************************************************************)
(* Properties                                                              *)
(***************************************************************************)
\* the names of the listed files that end in .png whatever the case, in order
ImageNames ==
    LET images == SelectSeq(image_files, LAMBDA f : EndsWith(Lower(f), ".png"))
    IN  [i \in 1..Len(images) |-> Basename(images[i])]

\* the rows of the report that stand for a file, and those that do not
FileRows == SelectSeq(df, LAMBDA r : r.filename # None)

MissingRows == SelectSeq(df, LAMBDA r : r.filename = None)

ValidCandidates == {i \in 1..Len(parsed_files) : parsed_files[i].format_valid}

\* the positions in the report of the rows for the file of candidate c
RowsOf(c) == {j \in 1..Len(df) : df[j].filename = c.filename}

\* key = normalize(first + ' ' + last) of each valid candidate
Keys ==
    [i \in 1..Len(parsed_files) |->
        IF parsed_files[i].format_valid
        THEN normalize(parsed_files[i].first \o " " \o parsed_files[i].last)
        ELSE None]

StaffKeys == {staff_dict[i].key : i \in 1..Len(staff_dict)}

PrimaryKeys == {player_keys[i].key : i \in 1..Len(player_keys)}

NicknameKeys == {nickname_keys[i].key : i \in 1..Len(nickname_keys)}

PlayerItems == {player_keys[i] : i \in 1..Len(player_keys)}

NicknameItems == {nickname_keys[i] : i \in 1..Len(nickname_keys)}

\* the title of the staff entry of key k
TitleOf(k) == (CHOOSE item \in {staff_dict[i] : i \in 1..Len(staff_dict)} :
                  item.key = k).value.title

\* C1: every listed file whose name ends in .png has exactly one row in the
\* report of check_mismatches_and_missing(parse_filenames(F), ...), in the
\* order of the listing, and the row of a format-invalid candidate carries
\* the parser's reason as its status.
C1_EveryImageHasOneRow ==
    pc = "done" =>
        LET rows == FileRows
        IN  /\ [j \in 1..Len(rows) |-> rows[j].filename] = ImageNames
            /\ \A i \in 1..Len(parsed_files) :
                  ~ parsed_files[i].format_valid =>
                      \A j \in RowsOf(parsed_files[i]) :
                          df[j].status = parsed_files[i].format_msg

\* the status the precedence rule gives to a valid candidate of school
\* school and key k, given the keys of the three tables
RuleStatus(school, k, staff, primary, nickname) ==
    CASE k \in staff -> StatusStaff(TitleOf(k))
      [] k \notin staff /\ school # Lower(school_prefix) -> StatusSchool
      [] k \notin staff /\ school = Lower(school_prefix) /\ k \in primary ->
            StatusMatched
      [] k \notin staff /\ school = Lower(school_prefix) /\ k \notin primary
         /\ k \in nickname -> StatusNickname
      [] OTHER -> StatusNotInRoster

\* C2: every format-valid candidate gets exactly one row, and its status is
\* the first that applies of: key is a staff key -> not a player (with the
\* title); school differs from the lowercased prefix -> school prefix
\* mismatch; key is a primary key -> matched; key is a nickname key ->
\* nickname used; else not in roster.
C2_StatusByPrecedence ==
    pc = "done" =>
        LET keys     == Keys
            staff    == StaffKeys
            primary  == PrimaryKeys
            nickname == NicknameKeys
        IN  \A i \in ValidCandidates :
                LET c == parsed_files[i]
                IN  /\ Cardinality(RowsOf(c)) =
                       Cardinality({m \in 1..Len(parsed_files) :
                                       parsed_files[m].filename = c.filename})
                    /\ \A j \in RowsOf(c) :
                          df[j].status =
                              RuleStatus(c.school, keys[i], staff, primary, nickname)

\* a school prefix mismatch reported for a key that is both a primary and a
\* nickname key
C2_Witness ==
    /\ pc = "done"
    /\ \E i \in ValidCandidates :
          /\ Keys[i] \in PrimaryKeys \cap NicknameKeys
          /\ Keys[i] \notin StaffKeys
          /\ \E j \in RowsOf(parsed_files[i]) : df[j].status = StatusSchool

\* C3: for a key that is both a staff key and a primary key, every valid file
\* with that key is reported as not a player with the staff title, whatever
\* its school prefix, never as matched, and the player entry of that key has
\* no missing row, whether such a file exists or not.
C3_StaffWinsOverPlayer ==
    pc = "done" =>
        LET keys    == Keys
            missing == MissingRows
        IN  \A k \in StaffKeys \cap PrimaryKeys :
                /\ \A i \in ValidCandidates :
                      keys[i] = k =>
                          \A j \in RowsOf(parsed_files[i]) :
                              /\ df[j].status = StatusStaff(TitleOf(k))
                              /\ df[j].status # StatusMatched
                /\ \A j \in 1..Len(missing) :
                      missing[j].name # DictGet(player_keys, k)

\* a file of a colliding key, with a school that differs from the prefix,
\* reported as not a player
C3_Witness ==
    /\ pc = "done"
    /\ \E i \in ValidCandidates :
          /\ Keys[i] \in StaffKeys \cap PrimaryKeys
          /\ parsed_files[i].school # Lower(school_prefix)
          /\ \E j \in RowsOf(parsed_files[i]) :
                df[j].status = "[x] Not a Player (Head Coach)"

\* C4: a .png filename is format-valid exactly when its name without the
\* extension has two underscores and three non-empty segments; an invalid
\* candidate carries the reason of the violation it commits.
C4_ValidIffThreeSegments ==
    pc = "parsed" =>
        \A i \in 1..Len(parsed_files) :
            LET c     == parsed_files[i]
                base  == SubSeq(c.filename, 1, Len(c.filename) - 4)
                parts == Split(base, "_")
                two   == CountChar(base, "_") = 2
            IN  /\ c.format_valid <=>
                      (two /\ \A m \in 1..Len(parts) : parts[m] # "")
                /\ ~ c.format_valid =>
                      c.format_msg = IF two THEN MsgMissingPart ELSE MsgUnderscores

\* C5: the row of a valid candidate with the right school whose key is a
\* nickname key, and neither a staff nor a primary key, has the nickname
\* status and carries the suggestion prefix_last_trueFirst.png.
C5_NicknameRowHasSuggestion ==
    pc = "done" =>
        LET keys == Keys
        IN  \A i \in ValidCandidates :
                LET c == parsed_files[i]
                IN  (/\ keys[i] \in NicknameKeys
                     /\ keys[i] \notin StaffKeys \cup PrimaryKeys
                     /\ c.school = Lower(school_prefix)) =>
                        \A j \in RowsOf(c) :
                            /\ df[j].status = StatusNickname
                            /\ "suggestion" \in DOMAIN df[j]
                            /\ df[j].suggestion =
                                  NicknameSuggestion(c, nickname_keys, school_prefix)

\* the keys of the valid candidates that are not staff keys
FileKeys == {Keys[i] : i \in ValidCandidates} \ StaffKeys

\* the missing rows are one row for each of the given roster items
MissingAre(items) ==
    LET missing == MissingRows
    IN  /\ Len(missing) = Cardinality(items)
        /\ {missing[j].name : j \in 1..Len(missing)} = {item.value : item \in items}

\* C6 as claimed: the missing rows are one row for each entry of the primary
\* table whose key is not the key of a valid non-staff file.
C6_MissingIsAllWithoutFile ==
    pc = "done" =>
        LET files == FileKeys
        IN  MissingAre({item \in PlayerItems : item.key \notin files})

\* C6: the missing rows are one row for each entry of the primary table whose
\* key is not the key of a valid non-staff file, is not a staff key, and
\* whose display name is neither "full bio" nor "view full bio" in any case.
C6_MissingIsAllWithoutFileButStaff ==
    pc = "done" =>
        LET files == FileKeys
            staff == StaffKeys
        IN  MissingAre({item \in PlayerItems :
                          /\ item.key \notin files
                          /\ item.key \notin staff
                          /\ Lower(item.value) \notin {"full bio", "view full bio"}})

\* some valid file, an entry reported missing, and an entry with no row
\* because its key is a staff key
C6_Witness ==
    /\ pc = "done"
    /\ ValidCandidates # {}
    /\ Len(MissingRows) > 0
    /\ PrimaryKeys \cap StaffKeys # {}

\* C7: with the three tables empty every valid candidate gets a row, each
\* with the status not in roster or school prefix mismatch, and no row is a
\* missing row.
C7_EmptyTablesFallThrough ==
    (pc = "done" /\ player_keys = <<>> /\ nickname_keys = <<>> /\ staff_dict = <<>>) =>
        /\ \A i \in ValidCandidates :
              /\ RowsOf(parsed_files[i]) # {}
              /\ \A j \in RowsOf(parsed_files[i]) :
                    df[j].status \in {StatusNotInRoster, StatusSchool}
        /\ MissingRows = <<>>

\* empty tables, two valid files: one row each
C7_Witness ==
    /\ pc = "done"
    /\ player_keys = <<>> /\ nickname_keys = <<>> /\ staff_dict = <<>>
    /\ Cardinality(ValidCandidates) = 2
    /\ Len(df) = 2
    /\ df[1].status \in {StatusNotInRoster, StatusSchool}

\* C8: normalize(normalize(s)) = normalize(s).
C8_NormalizeIdempotent == key_again # None => key_again = key

\* C9: parse_filenames returns one candidate for each listed file whose name
\* ends in .png whatever the case, in the order of the listing, a
\* format-invalid one included, and none for the other files.
C9_OneCandidatePerImage ==
    pc = "parsed" =>
        [i \in 1..Len(parsed_files) |-> parsed_files[i].filename] = ImageNames

\* a listing of a file that is no image, and an image with a malformed name
C9_Witness ==
    /\ pc = "parsed"
    /\ image_files = <<"notes.txt", "weird-name.png">>
    /\ Len(parsed_files) = 1
    /\ ~ parsed_files[1].format_valid

\* C10: after the handler has built and pruned the tables, no entry of the
\* primary or the nickname table has a display name with a denylist word.
C10_NoDenylistedEntryLeft ==
    pc \in {"shown", "warned"} =>
        \A item \in PlayerItems \cup NicknameItems :
            ~ \E word \in {"coach", "staff", "jersey", "number", "manager",
                           "director", "assistant", "trainer", "operations"} :
                 HasSubstring(Lower(item.value), word)


\* the positions of the spaces of a display name
SpacesOf(text) == {i \in 1..Len(text) : Ch(text, i) = " "}

\* the filename the claim prescribes for a display name and a prefix
PrescribedFilename(text, prefix) ==
    IF SpacesOf(text) = {}
    THEN prefix \o "_" \o Lower(text) \o ".png"
    ELSE LET k == CHOOSE i \in SpacesOf(text) : \A m \in SpacesOf(text) : i <= m
         IN  prefix \o "_" \o Lower(SubSeq(text, k + 1, Len(text))) \o "_"
             \o Lower(SubSeq(text, 1, k - 1)) \o ".png"

\* C11: the suggestion of every missing row is prefix_last_first.png, all but
\* the prefix lowercased, where first is the display name up to its first
\* space and last is all that follows that space; for a display name with no
\* space it is prefix_first.png.
C11_SuggestionSplitsAtFirstSpace ==
    pc = "reported" =>
        LET missing == MissingRows
        IN  \A j \in 1..Len(missing) :
                missing[j].suggestion =
                    PrescribedFilename(missing[j].name, school_prefix)

\* missing rows for a name of three words and for a name of one word
C11_Witness ==
    /\ pc = "reported"
    /\ school_prefix = "cal"
    /\ \E j \in 1..Len(df) :
          /\ df[j].filename = None
          /\ df[j].name = "Mary Ann Lee"
          /\ df[j].suggestion = "cal_ann lee_mary.png"
    /\ \E j \in 1..Len(df) :
          /\ df[j].filename = None
          /\ df[j].name = "Cher"
          /\ df[j].suggestion = "cal_cher.png"

\* a display name of exactly two words, each of unaccented letters and
\* neither a suffix word
IsPlainTwoWordName(text) ==
    LET words == Split(text, " ")
    IN  /\ Len(words) = 2
        /\ \A m \in 1..2 :
              /\ words[m] # ""
              /\ \A i \in 1..Len(words[m]) :
                    Ch(words[m], i) \in LowerLetters \cup UpperLetters
              /\ \A t \in 1..Len(SuffixTokens) : Lower(words[m]) # SuffixTokens[t]

\* a prefix in lower case that has no underscore
IsLowercasePrefix(prefix) == Lower(prefix) = prefix /\ CountChar(prefix, "_") = 0

\* C12: when the suggested filename of a missing row whose display name is
\* two plain words is added to the folder, under a lowercase prefix without
\* underscores, the new file is a valid candidate reported as matched to that
\* roster entry, and the entry has no missing row any more.
C12_SuggestedFileMatches ==
    (/\ pc = "retried"
     /\ IsPlainTwoWordName(suggested.name)
     /\ IsLowercasePrefix(school_prefix)) =>
        LET added == parsed_files[Len(parsed_files)]
        IN  /\ Len(parsed_files) > 0
            /\ added.filename = Basename(suggested.suggestion)
            /\ added.format_valid
            /\ \A j \in RowsOf(added) :
                  /\ df[j].status = StatusMatched
                  /\ df[j].name = suggested.name
            /\ RowsOf(added) # {}
            /\ \A j \in 1..Len(df) :
                  df[j].filename = None => df[j].name # suggested.name

====
